---- MODULE Spec2Model ----
(***************************************************************************)
(* Model of btoandav20/stores/oandav20store.py: the OandaV20Store          *)
(* singleton, its notification deque, the start() registration logic and   *)
(* the account poller thread _t_account.                                   *)
(***************************************************************************)
EXTENDS Bags, FiniteSets, Integers, Sequences, TLC

(***************************************************************************)
(* Bounds of the model.                                                    *)
(***************************************************************************)
MaxQueue == 2          \* notifications waiting in the deque
MaxDatas == 1          \* data feeds registered through start(data=...)
MaxBrokerStarts == 2   \* start(broker=...) calls explored
MaxFairStarts == 1     \* start(broker=...) calls explored under fairness
MaxCallStarts == 1     \* start(broker=...) calls explored among the calls
MaxPuts == 4           \* put_notification calls of the producers
MaxGets == 3           \* get_notifications calls of the consumer
MaxCalls == 2          \* OandaV20Store(...) calls of one thread

(***************************************************************************)
(* Values.                                                                 *)
(***************************************************************************)
None == "None"
NoneMark == <<None>>   \* the None appended to the deque, next to the tuples
Unset == "Unset"       \* an attribute that was never assigned
NotImplemented == "Not implemented"

Brokers == {"b1"}
Datas == {"d1", "d2"}
Datanames == {"EUR_USD"}
Orders == {"o1"}

\* data._env: the cerebro instance the data feed belongs to
DataEnv(d) == "cerebro"

\* account summaries the API can answer with (response.get('account'))
FullSummaries ==
  { [marginAvailable |-> 11, balance |-> 21],
    [marginAvailable |-> 12, balance |-> 22] }
\* summaries on which the lookup of a field raises KeyError
PartialSummaries ==
  { [balance |-> 21],
    [marginAvailable |-> 11] }
Summaries == FullSummaries \cup PartialSummaries

\* params: account_tmout, the refresh period and the bound of the first wait
account_tmout == 10

\* oapi.account.summary (or response.get) raises this exception
FetchError == [error |-> "V20Error"]

VARIABLES
  notifs,       \* self.notifs: deque of (msg, args, kwargs) and None marks
  _cash,        \* self._cash
  _value,       \* self._value
  cash,         \* self.cash, the attribute start() assigns with no arguments
  _env,         \* self._env
  _evt_acct,    \* self._evt_acct: TRUE when the Event is set
  broker,       \* self.broker
  datas,        \* self.datas
  q_account,    \* contents of the Queue self.q_account refers to
  pollers,      \* bag of the local states of the live _t_account threads
  listeners,    \* number of _t_streaming_listener threads blocked in q.get()
  events,       \* number of _t_streaming_events threads that were spawned
  waiting,      \* number of start(broker=...) callers inside _evt_acct.wait
  gn_pc,        \* per consumer: position inside get_notifications
  gn_out,       \* per consumer: the list being built by get_notifications
  api,          \* what the broker API answers at the moment
  ret,          \* the last call made on the store and its outcome
  data_started, \* history: the broker.data_started(data) calls made
  nstart,       \* history: number of broker_threads() calls
  fetched_ok,   \* history: some account summary fetch returned
  nput,         \* history: number of notifications put by producers
  marks,        \* history: nput at each sentinel insertion
  snaps,        \* history: the deque at each sentinel insertion
  rets,         \* history: the lists returned by get_notifications
  _singleton,   \* cls._singleton of MetaSingleton
  ctor_pc,      \* per thread: position inside MetaSingleton.__call__
  ctor_inst,    \* per thread: the instance it has constructed
  ctor_calls,   \* per thread: the OandaV20Store(...) calls made
  ninit,        \* history: number of runs of OandaV20Store.__init__
  returned,     \* history: the instances returned by OandaV20Store(...)
  reader,       \* a client thread: what its get_cash(), get_value() returned
  called        \* history: the arguments of the last start() call

storeVars == <<notifs, _cash, _value, cash, _env, _evt_acct, broker, datas,
               q_account>>
threadVars == <<pollers, listeners, events, waiting, gn_pc, gn_out>>
histVars == <<data_started, nstart, fetched_ok>>
notifHist == <<nput, marks, snaps, rets>>
metaVars == <<_singleton, ctor_pc, ctor_inst, ctor_calls, ninit, returned>>
aux == <<notifHist, metaVars, reader, called>>
vars == <<storeVars, threadVars, api, ret, histVars, notifHist, metaVars,
          reader, called>>

Consumers == {"c1", "c2"}
Threads == {"t1", "t2"}
NoInstance == 0        \* cls._singleton = None

(***************************************************************************)
(* OandaV20Store.__init__                                                  *)
(***************************************************************************)
StoreInit ==
  /\ notifs = <<>>
  /\ _cash = 0
  /\ _value = 0
  /\ cash = Unset
  /\ _env = None
  /\ _evt_acct = FALSE
  /\ broker = None
  /\ datas = <<>>
  /\ q_account = <<>>
  /\ pollers = EmptyBag
  /\ listeners = 0
  /\ events = 0
  /\ waiting = 0
  /\ gn_pc = [c \in Consumers |-> "idle"]
  /\ gn_out = [c \in Consumers |-> <<>>]
  /\ ret = [op |-> "__init__", args |-> <<>>, kind |-> "return",
            val |-> None]
  /\ data_started = <<>>
  /\ nstart = 0
  /\ fetched_ok = FALSE
  /\ nput = 0
  /\ marks = <<>>
  /\ snaps = <<>>
  /\ rets = <<>>
  /\ reader = <<>>
  /\ called = <<>>

Returned(op, args, val) ==
  [op |-> op, args |-> args, kind |-> "return", val |-> val]
Raised(op, args, exc) ==
  [op |-> op, args |-> args, kind |-> "raise", val |-> exc]

(***************************************************************************)
(* put_notification / get_notifications                                    *)
(***************************************************************************)
\* self.notifs.append((msg, args, kwargs))
put_notification(msg, args, kwargs) ==
  notifs' = Append(notifs, <<msg, args, kwargs>>)

\* mutant: the mark is put at the head of the deque
get_notifications_mark_left(c) ==
  /\ gn_pc[c] = "idle"
  /\ notifs' = <<NoneMark>> \o notifs
  /\ gn_pc' = [gn_pc EXCEPT ![c] = "drain"]
  /\ gn_out' = [gn_out EXCEPT ![c] = <<>>]
  /\ UNCHANGED <<_cash, _value, cash, _env, _evt_acct, broker, datas,
                 q_account, pollers, listeners, events, waiting, api, ret,
                 histVars>>

\* mutant: no sentinel is appended when the deque already holds one
get_notifications_mark_once(c) ==
  /\ gn_pc[c] = "idle"
  /\ notifs' = IF \E i \in 1..Len(notifs) : notifs[i] = NoneMark
                 THEN notifs
                 ELSE Append(notifs, NoneMark)
  /\ gn_pc' = [gn_pc EXCEPT ![c] = "drain"]
  /\ gn_out' = [gn_out EXCEPT ![c] = <<>>]
  /\ UNCHANGED <<_cash, _value, cash, _env, _evt_acct, broker, datas,
                 q_account, pollers, listeners, events, waiting, api, ret,
                 histVars>>

\* self.notifs.append(None)
get_notifications_mark(c) ==
  /\ gn_pc[c] = "idle"
  /\ notifs' = Append(notifs, NoneMark)
  /\ gn_pc' = [gn_pc EXCEPT ![c] = "drain"]
  /\ gn_out' = [gn_out EXCEPT ![c] = <<>>]
  /\ UNCHANGED <<_cash, _value, cash, _env, _evt_acct, broker, datas,
                 q_account, pollers, listeners, events, waiting, api, ret,
                 histVars>>

\* mutant: the result list is built from the front
get_notifications_pop_reversed(c) ==
  /\ gn_pc[c] = "drain"
  /\ IF notifs = <<>>
       THEN /\ gn_pc' = [gn_pc EXCEPT ![c] = "IndexError"]
            /\ UNCHANGED <<notifs, gn_out>>
       ELSE /\ notifs' = Tail(notifs)
            /\ IF Head(notifs) = NoneMark
                 THEN /\ gn_pc' = [gn_pc EXCEPT ![c] = "idle"]
                      /\ gn_out' = [gn_out EXCEPT ![c] = <<>>]
                 ELSE /\ gn_out' = [gn_out EXCEPT ![c] = <<Head(notifs)>> \o @]
                      /\ UNCHANGED gn_pc
  /\ UNCHANGED <<_cash, _value, cash, _env, _evt_acct, broker, datas,
                 q_account, pollers, listeners, events, waiting, api, ret,
                 histVars>>

\* mutant: a notification is read but kept, it goes back to the tail
get_notifications_pop_keep(c) ==
  /\ gn_pc[c] = "drain"
  /\ notifs # <<>>
  /\ IF Head(notifs) = NoneMark
       THEN /\ notifs' = Tail(notifs)
            /\ gn_pc' = [gn_pc EXCEPT ![c] = "idle"]
            /\ gn_out' = [gn_out EXCEPT ![c] = <<>>]
       ELSE /\ notifs' = Append(Tail(notifs), Head(notifs))
            /\ gn_out' = [gn_out EXCEPT ![c] = Append(@, Head(notifs))]
            /\ UNCHANGED gn_pc
  /\ UNCHANGED <<_cash, _value, cash, _env, _evt_acct, broker, datas,
                 q_account, pollers, listeners, events, waiting, api, ret,
                 histVars>>

\* one self.notifs.popleft() of iter(self.notifs.popleft, None); the list is
\* returned when the popped element is None, popleft raises IndexError on
\* an empty deque
get_notifications_pop(c) ==
  /\ gn_pc[c] = "drain"
  /\ IF notifs = <<>>
       THEN /\ gn_pc' = [gn_pc EXCEPT ![c] = "IndexError"]
            /\ UNCHANGED <<notifs, gn_out>>
       ELSE /\ notifs' = Tail(notifs)
            /\ IF Head(notifs) = NoneMark
                 THEN /\ gn_pc' = [gn_pc EXCEPT ![c] = "idle"]
                      /\ gn_out' = [gn_out EXCEPT ![c] = <<>>]
                 ELSE /\ gn_out' = [gn_out EXCEPT
                                      ![c] = Append(@, Head(notifs))]
                      /\ UNCHANGED gn_pc
  /\ UNCHANGED <<_cash, _value, cash, _env, _evt_acct, broker, datas,
                 q_account, pollers, listeners, events, waiting, api, ret,
                 histVars>>

\* the step of get_notifications_pop that returns the list
get_notifications_returns(c) ==
  gn_pc[c] = "drain" /\ notifs # <<>> /\ Head(notifs) = NoneMark

(***************************************************************************)
(* start(data=None, broker=None)                                           *)
(***************************************************************************)
\* streaming_events(): spawns _t_streaming_listener, which blocks for ever in
\* q.get(), and _t_streaming_events, whose body is empty without a tmout
streaming_events ==
  /\ listeners' = listeners + 1
  /\ events' = events + 1

\* mutant: a poller is spawned only when none is alive
broker_threads_once ==
  /\ q_account' = <<"True">>
  /\ pollers' = IF pollers = EmptyBag
                  THEN SetToBag({[pc |-> "get"]})
                  ELSE pollers
  /\ waiting' = waiting + 1
  /\ nstart' = nstart + 1

\* broker_threads() up to the wait: new queue, put(True), spawn _t_account
broker_threads ==
  /\ q_account' = <<"True">>
  /\ pollers' = pollers (+) SetToBag({[pc |-> "get"]})
  /\ waiting' = waiting + 1
  /\ nstart' = nstart + 1

\* mutant: the broker argument is tested before the data argument
start_broker_first(data, brk) ==
  /\ IF data = None /\ brk = None
       THEN /\ cash' = None
            /\ UNCHANGED <<_env, datas, data_started, broker, listeners,
                           events, q_account, pollers, waiting, nstart>>
       ELSE IF brk = None
         THEN /\ _env' = DataEnv(data)
              /\ datas' = Append(datas, data)
              /\ IF broker # None
                   THEN data_started' = Append(data_started, <<broker, data>>)
                   ELSE UNCHANGED data_started
              /\ UNCHANGED <<cash, broker, listeners, events, q_account,
                             pollers, waiting, nstart>>
         ELSE /\ broker' = brk
              /\ streaming_events
              /\ broker_threads
              /\ UNCHANGED <<cash, _env, datas, data_started>>
  /\ UNCHANGED <<notifs, _cash, _value, _evt_acct, gn_pc, gn_out, api, ret,
                 fetched_ok>>

\* mutant: registering the broker announces the data feeds already started
start_announce_pending(data, brk) ==
  /\ IF data = None /\ brk = None
       THEN /\ cash' = None
            /\ UNCHANGED <<_env, datas, data_started, broker, listeners,
                           events, q_account, pollers, waiting, nstart>>
       ELSE IF data # None
         THEN /\ _env' = DataEnv(data)
              /\ datas' = Append(datas, data)
              /\ IF broker # None
                   THEN data_started' = Append(data_started, <<broker, data>>)
                   ELSE UNCHANGED data_started
              /\ UNCHANGED <<cash, broker, listeners, events, q_account,
                             pollers, waiting, nstart>>
         ELSE /\ broker' = brk
              /\ streaming_events
              /\ broker_threads
              /\ data_started' = data_started
                     \o [i \in 1..Len(datas) |-> <<brk, datas[i]>>]
              /\ UNCHANGED <<cash, _env, datas>>
  /\ UNCHANGED <<notifs, _cash, _value, _evt_acct, gn_pc, gn_out, api, ret,
                 fetched_ok>>

\* def start(self, data=None, broker=None)
start(data, brk) ==
  /\ IF data = None /\ brk = None
       THEN /\ cash' = None
            /\ UNCHANGED <<_env, datas, data_started, broker, listeners,
                           events, q_account, pollers, waiting, nstart>>
       ELSE IF data # None
         THEN /\ _env' = DataEnv(data)
              /\ datas' = Append(datas, data)
              /\ IF broker # None
                   THEN data_started' = Append(data_started, <<broker, data>>)
                   ELSE UNCHANGED data_started
              /\ UNCHANGED <<cash, broker, listeners, events, q_account,
                             pollers, waiting, nstart>>
         ELSE /\ broker' = brk
              /\ streaming_events
              /\ broker_threads
              /\ UNCHANGED <<cash, _env, datas, data_started>>
  /\ UNCHANGED <<notifs, _cash, _value, _evt_acct, gn_pc, gn_out, api, ret,
                 fetched_ok>>

\* mutant: the wait has no timeout
Event_wait_forever(tmout) == _evt_acct

\* Event.wait(timeout): returns once the flag is set or the timeout expired
Event_wait(tmout) ==
  \/ _evt_acct
  \/ tmout \in Nat

\* self._evt_acct.wait(self.p.account_tmout) returns, and start() with it
broker_threads_wait ==
  /\ waiting > 0
  /\ Event_wait(account_tmout)
  /\ waiting' = waiting - 1
  /\ UNCHANGED <<storeVars, pollers, listeners, events, gn_pc, gn_out, api,
                 ret, histVars>>

(***************************************************************************)
(* _t_account: the account poller thread                                   *)
(***************************************************************************)
Moves(p, q) ==
  pollers' = (pollers (-) SetToBag({p})) (+) SetToBag({q})

\* mutant: the test of the message is inverted, any message ends the thread
t_account_get_inverted(p) ==
  /\ p.pc = "get"
  /\ IF q_account # <<>>
       THEN /\ q_account' = Tail(q_account)
            /\ IF Head(q_account) # None
                 THEN Moves(p, [pc |-> "done"])
                 ELSE Moves(p, [pc |-> "summary"])
       ELSE /\ Moves(p, [pc |-> "summary"])
            /\ UNCHANGED q_account
  /\ UNCHANGED <<notifs, _cash, _value, cash, _env, _evt_acct, broker, datas,
                 listeners, events, waiting, gn_pc, gn_out, api, ret,
                 histVars>>

\* msg = self.q_account.get(timeout=self.p.account_tmout)
t_account_get(p) ==
  /\ p.pc = "get"
  /\ IF q_account # <<>>
       THEN /\ q_account' = Tail(q_account)
            /\ IF Head(q_account) = None
                 THEN Moves(p, [pc |-> "done"])            \* break
                 ELSE Moves(p, [pc |-> "summary"])
       ELSE /\ Moves(p, [pc |-> "summary"])                \* queue.Empty
            /\ UNCHANGED q_account
  /\ UNCHANGED <<notifs, _cash, _value, cash, _env, _evt_acct, broker, datas,
                 listeners, events, waiting, gn_pc, gn_out, api, ret,
                 histVars>>

\* mutant: the exception is swallowed, nothing is notified
t_account_summary_silent(p) ==
  /\ p.pc = "summary"
  /\ IF api \in Summaries
       THEN /\ Moves(p, [pc |-> "set_cash", acc |-> api])
            /\ fetched_ok' = TRUE
       ELSE /\ Moves(p, [pc |-> "get"])
            /\ UNCHANGED fetched_ok
  /\ UNCHANGED <<notifs, _cash, _value, cash, _env, _evt_acct, broker, datas,
                 q_account, listeners, events, waiting, gn_pc, gn_out, api,
                 ret, data_started, nstart>>

\* mutant: the exception handler also clears the cached cash and value
t_account_summary_reset(p) ==
  /\ p.pc = "summary"
  /\ IF api \in Summaries
       THEN /\ Moves(p, [pc |-> "set_cash", acc |-> api])
            /\ fetched_ok' = TRUE
            /\ UNCHANGED <<notifs, _cash, _value>>
       ELSE /\ put_notification(api.error, <<>>, <<>>)
            /\ Moves(p, [pc |-> "get"])
            /\ _cash' = 0
            /\ _value' = 0
            /\ UNCHANGED fetched_ok
  /\ UNCHANGED <<cash, _env, _evt_acct, broker, datas,
                 q_account, listeners, events, waiting, gn_pc, gn_out, api,
                 ret, data_started, nstart>>

\* response = self.oapi.account.summary(...); accinfo = response.get(...)
t_account_summary(p) ==
  /\ p.pc = "summary"
  /\ IF api \in Summaries
       THEN /\ Moves(p, [pc |-> "set_cash", acc |-> api])
            /\ fetched_ok' = TRUE
            /\ UNCHANGED notifs
       ELSE /\ put_notification(api.error, <<>>, <<>>)
            /\ Moves(p, [pc |-> "get"])                    \* continue
            /\ UNCHANGED fetched_ok
  /\ UNCHANGED <<_cash, _value, cash, _env, _evt_acct, broker, datas,
                 q_account, listeners, events, waiting, gn_pc, gn_out, api,
                 ret, data_started, nstart>>

\* mutant: the two assignments are swapped, the balance is stored first
t_account_set_cash_value_first(p) ==
  /\ p.pc = "set_cash"
  /\ IF {"marginAvailable", "balance"} \subseteq DOMAIN p.acc
       THEN /\ _value' = p.acc.balance
            /\ Moves(p, [p EXCEPT !.pc = "set_value"])
       ELSE /\ Moves(p, [pc |-> "set_evt"])
            /\ UNCHANGED _value
  /\ UNCHANGED <<notifs, _cash, cash, _env, _evt_acct, broker, datas,
                 q_account, listeners, events, waiting, gn_pc, gn_out, api,
                 ret, histVars>>

\* self._cash = accinfo.marginAvailable
t_account_set_cash(p) ==
  /\ p.pc = "set_cash"
  /\ IF "marginAvailable" \in DOMAIN p.acc
       THEN /\ _cash' = p.acc.marginAvailable
            /\ Moves(p, [p EXCEPT !.pc = "set_value"])
       ELSE /\ Moves(p, [pc |-> "set_evt"])        \* except KeyError
            /\ UNCHANGED _cash
  /\ UNCHANGED <<notifs, _value, cash, _env, _evt_acct, broker, datas,
                 q_account, listeners, events, waiting, gn_pc, gn_out, api,
                 ret, histVars>>

\* mutant: the value is taken from marginAvailable
t_account_set_value_margin(p) ==
  /\ p.pc = "set_value"
  /\ IF "marginAvailable" \in DOMAIN p.acc
       THEN _value' = p.acc.marginAvailable
       ELSE UNCHANGED _value
  /\ Moves(p, [pc |-> "set_evt"])
  /\ UNCHANGED <<notifs, _cash, cash, _env, _evt_acct, broker, datas,
                 q_account, listeners, events, waiting, gn_pc, gn_out, api,
                 ret, histVars>>

\* self._value = accinfo.balance
t_account_set_value(p) ==
  /\ p.pc = "set_value"
  /\ IF "balance" \in DOMAIN p.acc
       THEN _value' = p.acc.balance
       ELSE UNCHANGED _value                               \* except KeyError
  /\ Moves(p, [pc |-> "set_evt"])
  /\ UNCHANGED <<notifs, _cash, cash, _env, _evt_acct, broker, datas,
                 q_account, listeners, events, waiting, gn_pc, gn_out, api,
                 ret, histVars>>

\* mutant: the event is cleared and set again on every refresh
t_account_set_evt_toggle(p) ==
  /\ p.pc = "set_evt"
  /\ _evt_acct' = ~_evt_acct
  /\ Moves(p, [pc |-> "get"])
  /\ UNCHANGED <<notifs, _cash, _value, cash, _env, broker, datas,
                 q_account, listeners, events, waiting, gn_pc, gn_out, api,
                 ret, histVars>>

\* self._evt_acct.set()
t_account_set_evt(p) ==
  /\ p.pc = "set_evt"
  /\ _evt_acct' = TRUE
  /\ Moves(p, [pc |-> "get"])
  /\ UNCHANGED <<notifs, _cash, _value, cash, _env, broker, datas,
                 q_account, listeners, events, waiting, gn_pc, gn_out, api,
                 ret, histVars>>

_t_account ==
  \E p \in BagToSet(pollers) :
    \/ t_account_get(p)
    \/ t_account_summary(p)
    \/ t_account_set_cash(p)
    \/ t_account_set_value(p)
    \/ t_account_set_evt(p)

\* the broker API starts or stops failing, or the account changes
ApiChange ==
  /\ api' \in (Summaries \cup {FetchError}) \ {api}
  /\ UNCHANGED <<storeVars, threadVars, ret, histVars>>

(***************************************************************************)
(* _GRANULARITIES and get_granularity                                      *)
(***************************************************************************)
\* the names of bt.TimeFrame
TimeFrames == {"Ticks", "MicroSeconds", "Seconds", "Minutes", "Days",
               "Weeks", "Months", "Years", "NoTimeFrame"}

\* the items of the dict display, in the order they are written
GranularityItems ==
  << <<"Seconds", 5, "S5">>,
     <<"Seconds", 10, "S10">>,
     <<"Seconds", 15, "S15">>,
     <<"Seconds", 30, "S30">>,
     <<"Minutes", 1, "M1">>,
     <<"Minutes", 2, "M3">>,
     <<"Minutes", 3, "M3">>,
     <<"Minutes", 4, "M4">>,
     <<"Minutes", 5, "M5">>,
     <<"Minutes", 10, "M10">>,
     <<"Minutes", 15, "M15">>,
     <<"Minutes", 30, "M30">>,
     <<"Minutes", 60, "H1">>,
     <<"Minutes", 120, "H2">>,
     <<"Minutes", 180, "H3">>,
     <<"Minutes", 240, "H4">>,
     <<"Minutes", 360, "H6">>,
     <<"Minutes", 480, "H8">>,
     <<"Days", 1, "D">>,
     <<"Weeks", 1, "W">>,
     <<"Months", 1, "M">> >>

\* a dict display evaluates its items in order, a later item replaces an
\* earlier one that has the same key
RECURSIVE DictOf(_, _)
DictOf(items, n) ==
  IF n = 0
    THEN << >>
    ELSE LET d == DictOf(items, n - 1)
             k == <<items[n][1], items[n][2]>>
         IN  [x \in (DOMAIN d) \cup {k} |->
                IF x = k THEN items[n][3] ELSE d[x]]

_GRANULARITIES == DictOf(GranularityItems, Len(GranularityItems))

\* mutant: the default of the lookup is the empty string
dict_get_empty(d, key, default) ==
  IF key \in DOMAIN d THEN d[key] ELSE ""

\* dict.get(key, default)
dict_get(d, key, default) ==
  IF key \in DOMAIN d THEN d[key] ELSE default

get_granularity(timeframe, compression) ==
  dict_get(_GRANULARITIES, <<timeframe, compression>>, None)

(***************************************************************************)
(* The accessors and the methods that are not implemented                  *)
(***************************************************************************)
get_cash == _cash
get_value == _value

Call(r) ==
  /\ ret' = r
  /\ UNCHANGED <<storeVars, threadVars, api, histVars>>

\* mutant: stop() ends the poller through its queue
stop_poller ==
  /\ q_account' = Append(q_account, None)
  /\ ret' = Returned("stop", <<>>, None)
  /\ UNCHANGED <<notifs, _cash, _value, cash, _env, _evt_acct, broker, datas,
                 threadVars, api, histVars>>

stop == Call(Raised("stop", <<>>, NotImplemented))
get_positions == Call(Raised("get_positions", <<>>, NotImplemented))
get_instrument(dataname) ==
  Call(Raised("get_instrument", <<dataname>>, NotImplemented))
candles(dataname, timeframe, compression) ==
  Call(Raised("candles", <<dataname, timeframe, compression>>,
              NotImplemented))
streaming_prices(dataname) ==
  Call(Raised("streaming_prices", <<dataname>>, NotImplemented))
order_create(order) == Call(Raised("order_create", <<order>>, NotImplemented))
order_cancel(order) == Call(Raised("order_cancel", <<order>>, NotImplemented))

(***************************************************************************)
(* Spec: the store after start(broker=...), with its account pollers, the  *)
(* broker API and the consumer of the notifications.                       *)
(***************************************************************************)
\* the class exists, one instance was made and nobody is constructing
MetaInit ==
  /\ _singleton = 1
  /\ ctor_pc = [t \in Threads |-> "idle"]
  /\ ctor_inst = [t \in Threads |-> NoInstance]
  /\ ctor_calls = [t \in Threads |-> 0]
  /\ ninit = 1
  /\ returned = {1}

Init ==
  /\ StoreInit
  /\ MetaInit
  /\ api \in Summaries \cup {FetchError}

\* a step of a poller, while the deque is within the bound
Poller ==
  /\ _t_account
  /\ notifs' # notifs => Len(notifs) < MaxQueue
  /\ UNCHANGED aux

StartReturn ==
  /\ broker_threads_wait
  /\ UNCHANGED aux

Environment == ApiChange /\ UNCHANGED aux
Mark == get_notifications_mark("c1") /\ UNCHANGED aux
Pop == get_notifications_pop("c1") /\ UNCHANGED aux

StartBroker(max) ==
  /\ nstart < max
  /\ \E b \in Brokers : start(None, b)
  /\ UNCHANGED aux

Next ==
  \/ StartBroker(MaxBrokerStarts)
  \/ StartReturn
  \/ Poller
  \/ Environment
  \/ Mark
  \/ Pop

Spec == Init /\ [][Next]_vars

\* the poller thread and the timed wait of start() are scheduled for ever
NextFair ==
  \/ StartBroker(MaxFairStarts)
  \/ StartReturn
  \/ Poller
  \/ Environment
  \/ Mark
  \/ Pop

FairSpec ==
  /\ Init
  /\ [][NextFair]_vars
  /\ WF_vars(Poller)
  /\ WF_vars(StartReturn)

(***************************************************************************)
(* Properties of the account poller                                        *)
(***************************************************************************)
At(pc) == CopiesIn([pc |-> pc], pollers)
Holding(pc) == {p \in BagToSet(pollers) : p.pc = pc}

\* a poller leaves the fetch while the API raises
FetchFailed ==
  /\ api \notin Summaries
  /\ At("summary") > 0
  /\ pollers' # pollers
  /\ CopiesIn([pc |-> "summary"], pollers') = At("summary") - 1

\* C5: a failing account-summary fetch appends exactly one notification that
\* carries the exception, the poller stays alive at the top of its loop, and
\* the only way out of the wait on q_account is into the next fetch.
C5_FetchErrorNotifiesAndRetries ==
  [][ /\ FetchFailed =>
          /\ notifs' = Append(notifs, <<api.error, <<>>, <<>>>>)
          /\ CopiesIn([pc |-> "get"], pollers') = At("get") + 1
          /\ BagCardinality(pollers') = BagCardinality(pollers)
      /\ CopiesIn([pc |-> "get"], pollers') < At("get") =>
          CopiesIn([pc |-> "summary"], pollers') = At("summary") + 1
      /\ CopiesIn([pc |-> "done"], pollers') = 0 ]_vars

\* two failures in a row were notified and the poller is about to fetch again
C5_Witness ==
  /\ ~fetched_ok
  /\ nstart = 1
  /\ Len(notifs) = 2
  /\ \A i \in 1..2 : notifs[i] = <<FetchError.error, <<>>, <<>>>>
  /\ At("summary") = 1

\* C6: once the API keeps answering with one account summary, a started
\* store ends up with get_cash() at its marginAvailable and get_value() at
\* its balance, for good.
C6_CashValueFollowSummary ==
  \A s \in FullSummaries :
    <>[](api = s /\ nstart > 0) =>
      <>[](get_cash = s.marginAvailable /\ get_value = s.balance)

C6_Witness ==
  /\ api = [marginAvailable |-> 12, balance |-> 22]
  /\ nstart > 0
  /\ _evt_acct
  /\ get_cash = 12
  /\ get_value = 22

\* C7: every start(broker=...) call returns, and while no fetch has
\* succeeded the event is unset and cash and value are the initial 0.0.
C7_StartReturns ==
  /\ \A k \in 1..MaxFairStarts :
       (nstart >= k) ~> (nstart - waiting >= k)
  /\ [](~fetched_ok => ~_evt_acct /\ get_cash = 0 /\ get_value = 0)

\* start() is back although the only fetches so far have failed
C7_Witness ==
  /\ nstart = 1
  /\ waiting = 0
  /\ ~fetched_ok
  /\ ~_evt_acct
  /\ Len(notifs) > 0
  /\ notifs[1] # NoneMark

\* C9: the event is unset after construction, is never cleared, and is set
\* only by a poller that is past the assignments of a fetched account
\* summary, never on a failing fetch.
C9_ReadyEventOneShot ==
  /\ _evt_acct = FALSE
  /\ [][ /\ _evt_acct => _evt_acct'
         /\ (~_evt_acct /\ _evt_acct') =>
               /\ fetched_ok
               /\ At("set_evt") > 0
               /\ CopiesIn([pc |-> "set_evt"], pollers') = At("set_evt") - 1
         /\ CopiesIn([pc |-> "set_evt"], pollers') > At("set_evt") =>
               \E p \in Holding("set_cash") \cup Holding("set_value") :
                 /\ p.acc \in Summaries
                 /\ CopiesIn(p, pollers') = CopiesIn(p, pollers) - 1
         /\ FetchFailed => UNCHANGED _evt_acct ]_vars

\* the event is set and a later fetch has failed
C9_Witness ==
  /\ _evt_acct
  /\ fetched_ok
  /\ Len(notifs) > 0
  /\ notifs[1] # NoneMark

\* C10 as claimed: at most one account poller thread at any time
C10_AtMostOnePoller == BagCardinality(pollers) <= 1

\* C10: every start(broker=...) call adds one poller and none exits, so the
\* pollers are as many as the calls, and at most one while there was at most
\* one call.
C10_OnePollerPerBrokerStart ==
  /\ BagCardinality(pollers) = nstart
  /\ At("done") = 0

C10_Witness ==
  /\ nstart = 2
  /\ BagCardinality(pollers) = 2
  /\ Cardinality(Holding("set_cash")) = 2

\* the pollers that are inside their loop
Polling == {p \in BagToSet(pollers) : p.pc # "done"}

\* C11: a started poller never leaves its loop: the queue it waits on only
\* ever holds True, no step takes a poller away, and under fair scheduling
\* a poller that waits on the queue goes on to fetch again.
C11_PollerNeverTerminates ==
  /\ [](\A i \in 1..Len(q_account) : q_account[i] = "True")
  /\ [](BagToSet(pollers) = Polling)
  /\ [][BagCardinality(pollers') >= BagCardinality(pollers)]_vars
  /\ (At("get") > 0) ~> (At("summary") > 0)

\* the poller went round once, found its queue empty and is fetching again
C11_Witness ==
  /\ nstart = 1
  /\ _evt_acct
  /\ q_account = <<>>
  /\ At("summary") = 1
  /\ Polling = {[pc |-> "summary"]}

\* a poller leaves the wait on q_account and starts an iteration
IterationBegins ==
  /\ At("get") > 0
  /\ CopiesIn([pc |-> "get"], pollers') = At("get") - 1
  /\ BagCardinality(pollers') = BagCardinality(pollers)

\* C12: the steps of a poller iteration whose fetch raises (taking the
\* message or the timeout, then the failing fetch) leave _cash, _value and
\* the ready event, and every other field of the store, as they are; the
\* failing fetch adds one entry to the notification queue and nothing else.
C12_FailedFetchFrame ==
  [][ /\ FetchFailed =>
          /\ UNCHANGED <<_cash, _value, _evt_acct>>
          /\ UNCHANGED <<cash, _env, broker, datas, q_account>>
          /\ Len(notifs') = Len(notifs) + 1
          /\ SubSeq(notifs', 1, Len(notifs)) = notifs
      /\ (IterationBegins /\ api \notin Summaries) =>
          /\ UNCHANGED <<_cash, _value, _evt_acct>>
          /\ UNCHANGED <<cash, _env, broker, datas, notifs>> ]_vars

\* a fetch failed after a complete update: the values of the earlier
\* summary and the set event are still there, the error is in the queue
C12_Witness ==
  /\ api = FetchError
  /\ _cash = 12
  /\ _value = 22
  /\ _evt_acct
  /\ notifs # <<>>
  /\ notifs[Len(notifs)] = <<FetchError.error, <<>>, <<>>>>
  /\ Polling = {[pc |-> "get"]}

(***************************************************************************)
(* SpecReader: a client thread reads the cached cash and value with        *)
(* get_cash() followed by get_value() while the pollers refresh them.      *)
(***************************************************************************)
MaxReadStarts == 1

\* the client calls get_cash()
read_cash ==
  /\ Len(reader) # 1
  /\ reader' = <<get_cash>>
  /\ UNCHANGED <<storeVars, threadVars, api, ret, histVars>>

\* the client calls get_value()
read_value ==
  /\ Len(reader) = 1
  /\ reader' = Append(reader, get_value)
  /\ UNCHANGED <<storeVars, threadVars, api, ret, histVars>>

ReadCash == read_cash /\ UNCHANGED <<notifHist, metaVars, called>>
ReadValue == read_value /\ UNCHANGED <<notifHist, metaVars, called>>

NextReader ==
  \/ StartBroker(MaxReadStarts)
  \/ StartReturn
  \/ Poller
  \/ Environment
  \/ ReadCash
  \/ ReadValue

SpecReader == Init /\ [][NextReader]_vars

\* C13: _cash and _value are written by two separate steps of a poller,
\* _cash first (from marginAvailable of the summary it holds) and _value
\* in a later step (from balance of the same summary), and the client's
\* get_cash() and get_value() are two steps that return what the fields
\* hold at that moment; the witness is a client that got the cash of one
\* summary with the balance of the summary before it.
C13_TwoSeparateAssignments ==
  [][ /\ ~(_cash' # _cash /\ _value' # _value)
      /\ _cash' # _cash =>
            \E p \in Holding("set_cash") :
              /\ "marginAvailable" \in DOMAIN p.acc
              /\ _cash' = p.acc.marginAvailable
              /\ CopiesIn(p, pollers') = CopiesIn(p, pollers) - 1
              /\ CopiesIn([p EXCEPT !.pc = "set_value"], pollers')
                    = CopiesIn([p EXCEPT !.pc = "set_value"], pollers) + 1
      /\ _value' # _value =>
            \E p \in Holding("set_value") :
              /\ "balance" \in DOMAIN p.acc
              /\ _value' = p.acc.balance
              /\ CopiesIn(p, pollers') = CopiesIn(p, pollers) - 1
      /\ reader' # reader =>
            /\ UNCHANGED <<_cash, _value, pollers>>
            /\ \/ reader' = <<_cash>>
               \/ reader' = Append(reader, _value) /\ Len(reader) = 1
    ]_vars

\* the poller has stored the cash of the summary (12, 22) over that of
\* (11, 21) and not yet its balance; the client got cash 12 with value 21
C13_Witness ==
  /\ reader = <<12, 21>>
  /\ _cash = 12
  /\ _value = 21
  /\ nstart = 1
  /\ Holding("set_value")
       = {[pc |-> "set_value", acc |-> [marginAvailable |-> 12, balance |-> 22]]}

(***************************************************************************)
(* SpecStart: clients call start() with every combination of arguments,    *)
(* in any order, while the threads it spawned run.                         *)
(***************************************************************************)
MaxStartDatas == 2

\* one start(data=d, broker=b) call; called remembers its arguments
StartCall(d, b) ==
  /\ d # None => Len(datas) < MaxStartDatas
  /\ (d = None /\ b # None) => nstart < MaxCallStarts
  /\ start(d, b)
  /\ called' = <<d, b>>
  /\ UNCHANGED <<notifHist, metaVars, reader>>

StartAny == \E d \in Datas \cup {None}, b \in Brokers \cup {None} : StartCall(d, b)

NextStart ==
  \/ StartAny
  \/ StartReturn
  \/ Poller

SpecStart == Init /\ [][NextStart]_vars

\* the step is a start() call (a repeated start() leaves called as it is)
IsStart == called' # called \/ datas' # datas \/ nstart' # nstart

\* the step starts the background threads of streaming_events() and
\* broker_threads()
Spawns ==
  /\ nstart' = nstart + 1
  /\ listeners' = listeners + 1
  /\ events' = events + 1
  /\ pollers' = pollers (+) SetToBag({[pc |-> "get"]})

\* C14: start() registers its broker and spawns the background threads
\* exactly when it is called with a broker and without data; with neither
\* argument it registers nothing and spawns nothing; with data (with or
\* without a broker) it registers the data only, leaves self.broker as it
\* is and spawns nothing; no other step registers a broker or spawns.
C14_StartDispatch ==
  [][ /\ IsStart =>
          IF called'[1] = None /\ called'[2] # None
            THEN /\ broker' = called'[2]
                 /\ Spawns
                 /\ datas' = datas
            ELSE /\ UNCHANGED <<broker, nstart, listeners, events, pollers,
                                q_account, waiting>>
                 /\ datas' = IF called'[1] = None
                               THEN datas
                               ELSE Append(datas, called'[1])
      /\ ~IsStart =>
          /\ UNCHANGED <<broker, datas, listeners, events>>
          /\ BagCardinality(pollers') = BagCardinality(pollers) ]_vars

\* start(data=d1, broker=b1) was the only call: d1 is registered, no broker
\* is, and no thread runs
C14_Witness ==
  /\ called = <<"d1", "b1">>
  /\ datas = <<"d1">>
  /\ broker = None
  /\ pollers = EmptyBag
  /\ listeners = 0
  /\ events = 0

\* C15: start(data=d) appends d at the end of datas and calls
\* broker.data_started(d) exactly when self.broker is set at that moment,
\* which is when an earlier start(broker=...) registered one; no other step
\* adds to datas or announces a data feed, so the feeds announced are always
\* the ones started after the broker and the earlier ones never are.
C15_DataStartedOnlyAtStart ==
  /\ [][ IF IsStart /\ called'[1] # None
           THEN /\ datas' = Append(datas, called'[1])
                /\ data_started' =
                     IF broker # None
                       THEN Append(data_started, <<broker, called'[1]>>)
                       ELSE data_started
           ELSE UNCHANGED <<datas, data_started>> ]_vars
  /\ [](broker # None <=> nstart > 0)
  /\ [](/\ Len(data_started) <= Len(datas)
        /\ \A i \in 1..Len(data_started) :
             data_started[i][2] = datas[Len(datas) - Len(data_started) + i])

\* d1 was started before the broker registered and d2 after it: only d2
\* has been announced
C15_Witness ==
  /\ datas = <<"d1", "d2">>
  /\ broker = "b1"
  /\ data_started = << <<"b1", "d2">> >>

\* the values a successful fetch can store in _cash and in _value
FetchedCash ==
  {s.marginAvailable : s \in {x \in Summaries : "marginAvailable" \in DOMAIN x}}
FetchedValue ==
  {s.balance : s \in {x \in Summaries : "balance" \in DOMAIN x}}

\* C18: whenever the ready event is set, _cash and _value both hold values
\* of a fetched account summary (neither is the initial 0.0).
C18_ReadyMeansValuesSet ==
  _evt_acct => (_cash \in FetchedCash /\ _value \in FetchedValue)

(***************************************************************************)
(* SpecNotif: producer threads calling put_notification and one consumer   *)
(* calling get_notifications, one call after the other.  The producers     *)
(* number their messages, so that every notification can be told apart.    *)
(***************************************************************************)
\* a thread calls put_notification(msg, *args, **kwargs)
put(msg, args, kwargs) ==
  /\ put_notification(msg, args, kwargs)
  /\ UNCHANGED <<_cash, _value, cash, _env, _evt_acct, broker, datas,
                 q_account, threadVars, api, ret, histVars>>

InitNotif ==
  /\ StoreInit
  /\ MetaInit
  /\ api = FetchError

Produce ==
  /\ nput < MaxPuts
  /\ put(nput + 1, <<>>, <<>>)
  /\ nput' = nput + 1
  /\ UNCHANGED <<marks, snaps, rets, metaVars, reader, called>>

ConsumeMark(c) ==
  /\ Len(marks) < MaxGets
  /\ get_notifications_mark(c)
  /\ marks' = Append(marks, nput)
  /\ snaps' = Append(snaps, notifs)
  /\ UNCHANGED <<nput, rets, metaVars, reader, called>>

ConsumePop(c) ==
  /\ get_notifications_pop(c)
  /\ rets' = IF get_notifications_returns(c)
               THEN Append(rets, gn_out[c])
               ELSE rets
  /\ UNCHANGED <<nput, marks, snaps, metaVars, reader, called>>

NextNotif ==
  \/ Produce
  \/ ConsumeMark("c1")
  \/ ConsumePop("c1")

SpecNotif == InitNotif /\ [][NextNotif]_vars

\* the numbers of the notifications of a list
Ids(list) == {list[i][1] : i \in 1..Len(list)}

\* the notifications numbered a+1 .. b, in that order
Numbered(a, b) == [i \in 1..(b - a) |-> <<a + i, <<>>, <<>>>>]

\* C1: of two get_notifications calls in sequence, the later returns only
\* notifications appended after the sentinel of the earlier, and nothing
\* the earlier has returned.
C1_SecondCallOnlyNewer ==
  \A k \in 1..Len(rets) : \A j \in 1..(k - 1) :
    /\ \A n \in Ids(rets[k]) : n > marks[j]
    /\ Ids(rets[k]) \cap Ids(rets[j]) = {}

\* both calls have returned something
C1_Witness ==
  /\ Len(rets) = 2
  /\ rets[1] # <<>>
  /\ rets[2] # <<>>

RECURSIVE Flat(_)
Flat(lists) == IF lists = <<>> THEN <<>> ELSE Head(lists) \o Flat(Tail(lists))

\* the entries of the deque that are notifications
Unmarked(q) == SelectSeq(q, LAMBDA x : x # NoneMark)

\* C16: with producers appending at any moment and one consumer making
\* its get_notifications calls one after the other, the lists returned so
\* far, then the list being built, then the notifications still in the
\* deque are, in this order, exactly the notifications put, in put order:
\* none is lost, none is returned twice, and no returned list holds the
\* sentinel.
C16_NoLossNoDuplication ==
  /\ Flat(rets) \o gn_out["c1"] \o Unmarked(notifs) = Numbered(0, nput)
  /\ \A i \in 1..Len(rets) : \A j \in 1..Len(rets[i]) : rets[i][j] # NoneMark
  /\ \A j \in 1..Len(gn_out["c1"]) : gn_out["c1"][j] # NoneMark

\* two calls have returned two notifications each, a third returned the
\* empty list, and the deque is empty
C16_Witness ==
  /\ rets = <<Numbered(0, 2), Numbered(2, 4), <<>>>>
  /\ notifs = <<>>
  /\ gn_pc["c1"] = "idle"

(***************************************************************************)
(* SpecOverlap: two consumer threads call get_notifications at the same    *)
(* time while producers append.                                            *)
(***************************************************************************)
ConsumeMarkAny == \E c \in Consumers : ConsumeMark(c)
ConsumePopAny == \E c \in Consumers : ConsumePop(c)

NextOverlap ==
  \/ Produce
  \/ ConsumeMarkAny
  \/ ConsumePopAny

SpecOverlap == InitNotif /\ [][NextOverlap]_vars

\* the consumers that are between their append(None) and their return
Draining == {c \in Consumers : gn_pc[c] = "drain"}

\* the number of sentinels in the deque
Sentinels(q) == Len(SelectSeq(q, LAMBDA x : x = NoneMark))

\* C17: with overlapping get_notifications calls the deque holds exactly
\* one sentinel for every call in progress, so a call in progress never
\* finds the deque empty (no IndexError), a call returns exactly in the
\* step that pops a sentinel, and once every call has returned no sentinel
\* is left.
C17_OneSentinelPerCall ==
  /\ [](Sentinels(notifs) = Cardinality(Draining))
  /\ [](\A c \in Consumers : gn_pc[c] # "IndexError")
  /\ [][\A c \in Consumers :
          (gn_pc[c] = "drain" /\ gn_pc'[c] # "drain") =>
             /\ gn_pc'[c] = "idle"
             /\ Head(notifs) = NoneMark
             /\ Sentinels(notifs') = Sentinels(notifs) - 1]_vars

\* two calls appended their sentinels behind the same two notifications,
\* each returned one of them, and the deque is empty again
C17_Witness ==
  /\ marks = <<2, 2>>
  /\ rets = <<Numbered(0, 1), Numbered(1, 2)>>
  /\ Draining = {}
  /\ notifs = <<>>

(***************************************************************************)
(* SpecGran: data feeds register and look up their granularity.            *)
(***************************************************************************)
\* the compressions of the table and some that are in no key
Compressions == {GranularityItems[i][2] : i \in DOMAIN GranularityItems}
                  \cup {0, 7, 20, 1440}

get_granularity_call(timeframe, compression) ==
  Call(Returned("get_granularity", <<timeframe, compression>>,
                get_granularity(timeframe, compression)))

StartData ==
  /\ Len(datas) < MaxDatas
  /\ \E d \in Datas, b \in Brokers \cup {None} : start(d, b)
  /\ UNCHANGED aux

StartNothing ==
  /\ start(None, None)
  /\ UNCHANGED aux

Lookup ==
  /\ \E tf \in TimeFrames, c \in Compressions : get_granularity_call(tf, c)
  /\ UNCHANGED aux

NextGran ==
  \/ StartData
  \/ StartNothing
  \/ Lookup

SpecGran == InitNotif /\ [][NextGran]_vars

\* the items of the table written for a key
ItemsFor(key) ==
  {i \in DOMAIN GranularityItems :
     <<GranularityItems[i][1], GranularityItems[i][2]>> = key}

IsLookup == ret' # ret /\ ret'.op = "get_granularity"

\* C3: a lookup returns the code written in the table for a pair that is a
\* key and None for any other pair, and it leaves the store as it was.
C3_GranularityLookup ==
  [][ IsLookup =>
        /\ \A i \in ItemsFor(ret'.args) :
              ret'.val = GranularityItems[i][3]
        /\ ItemsFor(ret'.args) = {} => ret'.val = None
        /\ ret'.kind = "return"
        /\ UNCHANGED <<storeVars, threadVars, histVars>> ]_vars

\* a mapped and then an unmapped pair were looked up by a registered feed
C3_Witness ==
  /\ datas # <<>>
  /\ ret.op = "get_granularity"
  /\ ret.args = <<"Minutes", 7>>
  /\ ret.val = None

\* C19: the granularity table is injective: a lookup that returns a code
\* returns one that no other mapped pair resolves to.
C19_GranularityInjective ==
  (ret.op = "get_granularity" /\ ret.val # None) =>
     \A key \in DOMAIN _GRANULARITIES :
        key # ret.args => get_granularity(key[1], key[2]) # ret.val

(***************************************************************************)
(* SpecCalls: a client registers data feeds and a broker and calls the     *)
(* methods that are not implemented, while the poller of the broker runs   *)
(* against an API that keeps its answer.                                   *)
(***************************************************************************)
Stop == stop /\ UNCHANGED aux
GetPositions == get_positions /\ UNCHANGED aux
GetInstrument == (\E n \in Datanames : get_instrument(n)) /\ UNCHANGED aux
Candles ==
  /\ \E n \in Datanames, tf \in {"Minutes", "Days"}, c \in {1, 7} :
       candles(n, tf, c)
  /\ UNCHANGED aux
StreamingPrices ==
  (\E n \in Datanames : streaming_prices(n)) /\ UNCHANGED aux
OrderCreate == (\E o \in Orders : order_create(o)) /\ UNCHANGED aux
OrderCancel == (\E o \in Orders : order_cancel(o)) /\ UNCHANGED aux

NextCalls ==
  \/ StartData
  \/ StartNothing
  \/ StartBroker(MaxCallStarts)
  \/ StartReturn
  \/ Poller
  \/ Stop
  \/ GetPositions
  \/ GetInstrument
  \/ Candles
  \/ StreamingPrices
  \/ OrderCreate
  \/ OrderCancel

SpecCalls == Init /\ [][NextCalls]_vars

Unimplemented == {"order_create", "order_cancel", "get_positions",
                  "get_instrument", "candles", "streaming_prices", "stop"}

\* C4: a call of one of the seven methods raises "Not implemented" and
\* leaves the deque, cash, value, datas, broker and the threads as they are.
C4_NotImplementedAndUnchanged ==
  [][ (ret' # ret /\ ret'.op \in Unimplemented) =>
        /\ ret'.kind = "raise"
        /\ ret'.val = NotImplemented
        /\ UNCHANGED <<storeVars, threadVars, histVars>> ]_vars

\* stop() was called on a store whose poller has set cash and value and
\* has notified a failure, with a data feed and a broker registered
C4_Witness ==
  /\ ret = Raised("stop", <<>>, NotImplemented)
  /\ _cash # 0
  /\ _value # 0
  /\ datas # <<>>
  /\ broker # None
  /\ BagCardinality(pollers) = 1

(***************************************************************************)
(* SpecSingleton: threads calling OandaV20Store(...), which runs           *)
(* MetaSingleton.__call__; a thread switch can fall between the test of    *)
(* cls._singleton, the construction and the assignment.                    *)
(***************************************************************************)
\* MetaSingleton.__init__: cls._singleton = None, no call was made yet
InitSingleton ==
  /\ StoreInit
  /\ api = FetchError
  /\ _singleton = NoInstance
  /\ ctor_pc = [t \in Threads |-> "idle"]
  /\ ctor_inst = [t \in Threads |-> NoInstance]
  /\ ctor_calls = [t \in Threads |-> 0]
  /\ ninit = 0
  /\ returned = {}

\* a thread evaluates OandaV20Store(...)
call_enter(t) ==
  /\ ctor_pc[t] = "idle"
  /\ ctor_calls[t] < MaxCalls
  /\ ctor_calls' = [ctor_calls EXCEPT ![t] = @ + 1]
  /\ ctor_pc' = [ctor_pc EXCEPT ![t] = "test"]
  /\ UNCHANGED <<_singleton, ctor_inst, ninit, returned>>

\* if cls._singleton is None:
call_test(t) ==
  /\ ctor_pc[t] = "test"
  /\ ctor_pc' = [ctor_pc EXCEPT
                   ![t] = IF _singleton = NoInstance
                            THEN "construct"
                            ELSE "return"]
  /\ UNCHANGED <<_singleton, ctor_inst, ctor_calls, ninit, returned>>

\* super(MetaSingleton, cls).__call__(*args, **kwargs): a new object is
\* made and OandaV20Store.__init__ runs on it
call_construct(t) ==
  /\ ctor_pc[t] = "construct"
  /\ ninit' = ninit + 1
  /\ ctor_inst' = [ctor_inst EXCEPT ![t] = ninit + 1]
  /\ ctor_pc' = [ctor_pc EXCEPT ![t] = "assign"]
  /\ UNCHANGED <<_singleton, ctor_calls, returned>>

\* cls._singleton = ( ... )
call_assign(t) ==
  /\ ctor_pc[t] = "assign"
  /\ _singleton' = ctor_inst[t]
  /\ ctor_pc' = [ctor_pc EXCEPT ![t] = "return"]
  /\ UNCHANGED <<ctor_inst, ctor_calls, ninit, returned>>

\* return cls._singleton
call_return(t) ==
  /\ ctor_pc[t] = "return"
  /\ returned' = returned \cup {_singleton}
  /\ ctor_pc' = [ctor_pc EXCEPT ![t] = "idle"]
  /\ UNCHANGED <<_singleton, ctor_inst, ctor_calls, ninit>>

metaFrame == <<storeVars, threadVars, api, ret, histVars, notifHist, reader,
               called>>

CallEnter == (\E t \in Threads : call_enter(t)) /\ UNCHANGED metaFrame
CallTest == (\E t \in Threads : call_test(t)) /\ UNCHANGED metaFrame
CallConstruct ==
  (\E t \in Threads : call_construct(t)) /\ UNCHANGED metaFrame
CallAssign == (\E t \in Threads : call_assign(t)) /\ UNCHANGED metaFrame
CallReturn == (\E t \in Threads : call_return(t)) /\ UNCHANGED metaFrame

NextSingleton ==
  \/ CallEnter
  \/ CallTest
  \/ CallConstruct
  \/ CallAssign
  \/ CallReturn

SpecSingleton == InitSingleton /\ [][NextSingleton]_vars

\* C8: __init__ runs at most once and every OandaV20Store(...) call returns
\* the same instance, whatever the interleaving of the calling threads.
C8_ConstructedOnce ==
  /\ ninit <= 1
  /\ Cardinality(returned) <= 1

====
